---- MODULE Spec2Model ----
(***************************************************************************)
(* Model of c10d::ProcessGroup (torch/csrc/distributed/c10d/               *)
(* ProcessGroup.hpp): the backend registry (setBackend / getBackend), the  *)
(* coalescing bracket, the sequence-number protocol and the collective     *)
(* dispatch methods.                                                       *)
(***************************************************************************)
EXTENDS Integers, FiniteSets, Sequences, TLC

\* ---------------------------------------------------------------- bounds
NumBackends == 2   \* backend instances the caller can supply
MaxRegs     == 2   \* setBackend calls made on the group in one behaviour
MaxTimeout  == 2   \* Options.timeout is 1 .. MaxTimeout milliseconds

\* ------------------------------------------------ enum BackendType (66-73)
UNDEFINED == 0
GLOO      == 1
NCCL      == 2
UCC       == 3
MPI       == 4
CUSTOM    == 5
BackendType == {UNDEFINED, GLOO, NCCL, UCC, MPI, CUSTOM}

\* c10::DeviceType values used by the callers of the group
DeviceType == {"CPU", "CUDA"}

\* backend types the callers pass to setBackend
RegTypes == {GLOO, MPI}

\* intrusive_ptr<Backend>: instances are 1..NumBackends, 0 is "no instance"
Backends  == 1 .. NumBackends
NoBackend == 0

\* c10::optional<at::Device>: a device is a type and an index (-1: no index)
Device   == [type : {"CUDA"}, index : {-1, 0}]
NoDevice == [type |-> "nullopt", index |-> -1]
OptDevice == Device \cup {NoDevice}
\* every device is taken to carry an index
has_indexAlways(dev) == TRUE

\* at::Device::has_index(): the index is not the "no index" value -1
has_index(dev) == dev.index # -1
IndexedOrNone == {dev \in OptDevice : dev = NoDevice \/ has_index(dev)}

\* the bound devices of the instances the callers hold: any device with an
\* index, or none; instances are interchangeable, so those without a bound
\* device are numbered first
SuppliedBound ==
  {f \in [Backends -> IndexedOrNone] :
     \A i, j \in Backends : (i < j /\ f[j] = NoDevice) => f[i] = NoDevice}

\* Options.backend, the name the group was built with
BackendName == "custom_pg"

EmptyMap == [k \in {} |-> 0]
Put(f, k, v) == [j \in DOMAIN f \cup {k} |-> IF j = k THEN v ELSE f[j]]

VARIABLES
  backendType_,             \* const BackendType backendType_
  options_,                 \* const intrusive_ptr<Options> options_
  deviceTypes_,             \* unordered_set<DeviceType>
  deviceTypeToBackendType_, \* unordered_map<DeviceType, BackendType>
  deviceTypeToBackend_,     \* unordered_map<DeviceType, intrusive_ptr<Backend>>
  backendTypeToBackend_,    \* unordered_map<BackendType, intrusive_ptr<Backend>>
  bound_device_id_,         \* optional<Device> of the group
  backendBound,             \* Backend::bound_device_id_ of every instance
  coalescing,               \* per instance: a coalesced batch is open
  scope,                    \* per device type: instance its open bracket signalled
  scopeType,                \* per device type: backend type it had at startCoalescing
  seq,                      \* per instance: sequence number
  tensor,                   \* static at::Tensor tensor of barrier(): its device type
  crashed,                  \* the process died (undefined behaviour that trapped)
  passed,                   \* device types some setBackend call was given
  nRegs,                    \* setBackend calls made so far
  lastCall,                 \* the last call on the group and what it did
  hooks,                    \* per instance: a completion hook is registered
  pc,                       \* per thread: where it is inside barrier()
  threadOpts,               \* per thread: the BarrierOptions it called with
  threadDisp                \* per thread: the operation its call dispatched

vars == <<backendType_, options_, deviceTypes_, deviceTypeToBackendType_,
          deviceTypeToBackend_, backendTypeToBackend_, bound_device_id_,
          backendBound, coalescing, scope, scopeType, seq, tensor, crashed,
          passed, nRegs, lastCall, hooks, pc, threadOpts, threadDisp>>

registry == <<deviceTypes_, deviceTypeToBackendType_, deviceTypeToBackend_,
              backendTypeToBackend_>>

\* the state of the threads that are inside barrier()
threads == <<pc, threadOpts, threadDisp>>

\* the two threads that call barrier() on the group
Threads == {1, 2}

NoDispatch == [name |-> "none"]
\* a thread that has not called barrier() holds no options
NoOptions  == [timeout |-> 0, device |-> NoDevice]
NoNumber   == -1

\* the record of one call on the group: what was asked (op, d, bt, x), what
\* came back (res, msg, ret, num, flag), the instance found registered (existing),
\* the backend methods that ran (invoked), the operation that was dispatched
\* (disp), and whether an absent instance was read (readAbsent)
NoCall ==
  [op |-> "none", d |-> "none", bt |-> UNDEFINED, x |-> NoBackend,
   dev |-> NoDevice, timeout |-> 0, existing |-> NoBackend, res |-> "ok", msg |-> "", ret |-> NoBackend,
   num |-> NoNumber, flag |-> FALSE, invoked |-> {}, disp |-> NoDispatch,
   readAbsent |-> FALSE]

Init ==
  /\ backendType_ \in BackendType
  /\ options_ = [backend |-> BackendName]
  /\ deviceTypes_ = {}
  /\ deviceTypeToBackendType_ = EmptyMap
  /\ deviceTypeToBackend_ = EmptyMap
  /\ backendTypeToBackend_ = EmptyMap
  /\ bound_device_id_ = NoDevice
  /\ backendBound \in SuppliedBound
  /\ coalescing = [i \in Backends |-> FALSE]
  /\ scope = [d \in DeviceType |-> NoBackend]
  /\ scopeType = [d \in DeviceType |-> UNDEFINED]
  /\ seq = [i \in Backends |-> 0]
  /\ tensor = "undefined"
  /\ crashed = FALSE
  /\ passed = {}
  /\ nRegs = 0
  /\ lastCall = NoCall
  /\ hooks = [i \in Backends |-> FALSE]
  /\ pc = [t \in Threads |-> "idle"]
  /\ threadOpts = [t \in Threads |-> NoOptions]
  /\ threadDisp = [t \in Threads |-> NoDispatch]

\* a call can be made: the process is alive
CanCall == ~crashed

\* ------------------------------------------------- registration (620-643)

\* outcomes of reading through an empty optional: the read traps, or it
\* yields a value that passes the check, or one that fails it
UBOutcomes == {"crash", "ok", "error"}

\* the check compares the registered instance with the group's bound device
\* instead of the supplied instance's
BoundDeviceCheckAgainstGroup(existingBackend, backend) ==
  backendBound[existingBackend] = bound_device_id_

\* TORCH_CHECK(existingBackend->getBoundDeviceId() ==
\*             (*backend)->getBoundDeviceId())                     (632-634)
BoundDeviceCheck(existingBackend, backend) ==
  backendBound[existingBackend] = backendBound[backend]

\* the supplied instance is stored for the device type instead of the
\* registered one
ReusedInstanceSupplied(existingBackend, backend) ==
  IF backend # NoBackend THEN backend ELSE existingBackend

\* deviceTypeToBackend_[deviceType] = existingBackend              (630-631)
ReusedInstance(existingBackend, backend) == existingBackend

\* the lookup misses a backend type that is registered
IsRegisteredMissed(backendType) == FALSE

\* backendTypeToBackend_.find(backendType) != end()                (628-629)
IsRegistered(backendType) == backendType \in DOMAIN backendTypeToBackend_

\* Backend::setBoundDeviceId(device): the instance takes the device as its
\* bound device
BackendSetBoundDeviceId(backend, device) ==
  [backendBound EXCEPT ![backend] = device]

\* an instance keeps its bound device when the group has none
PropagatedDeviceIfBound(backend) ==
  IF bound_device_id_ # NoDevice THEN bound_device_id_
  ELSE backendBound[backend]

\* the device handed to the instance: (*backend)->setBoundDeviceId(
\*                                        bound_device_id_)           (640)
PropagatedDevice(backend) == bound_device_id_

\* the outcomes a call can take: only a call that reads through an empty
\* optional has more than one
UBChoices(backendType, backend) ==
  IF IsRegistered(backendType) /\ backend = NoBackend
  THEN UBOutcomes ELSE {"ok"}

\* void setBackend(deviceType, backendType, optional<backend>)     (620-643)
\* ub is the outcome taken when the code reads through an empty optional
setBackend(deviceType, backendType, backend, ub) ==
  /\ CanCall
  /\ nRegs < MaxRegs
  /\ deviceTypeToBackendType_' =
       Put(deviceTypeToBackendType_, deviceType, backendType)
  /\ deviceTypes_' = deviceTypes_ \cup {deviceType}
  /\ IF IsRegistered(backendType)
     THEN LET existingBackend == backendTypeToBackend_[backendType]
              res == IF backend = NoBackend THEN ub
                     ELSE IF BoundDeviceCheck(existingBackend, backend)
                          THEN "ok" ELSE "error"
          IN /\ deviceTypeToBackend_' =
                  Put(deviceTypeToBackend_, deviceType,
                      ReusedInstance(existingBackend, backend))
             /\ UNCHANGED <<backendTypeToBackend_, backendBound>>
             /\ crashed' = (res = "crash")
             /\ lastCall' = [NoCall EXCEPT !.op = "setBackend",
                                 !.d = deviceType, !.bt = backendType,
                                 !.x = backend, !.existing = existingBackend,
                                 !.res = res,
                                 !.readAbsent = (backend = NoBackend)]
     ELSE /\ IF backend # NoBackend
             THEN /\ deviceTypeToBackend_' =
                       Put(deviceTypeToBackend_, deviceType, backend)
                  /\ backendTypeToBackend_' =
                       Put(backendTypeToBackend_, backendType, backend)
                  /\ backendBound' =
                       BackendSetBoundDeviceId(backend,
                                               PropagatedDevice(backend))
             ELSE UNCHANGED <<deviceTypeToBackend_, backendTypeToBackend_,
                              backendBound>>
          /\ UNCHANGED crashed
          /\ lastCall' = [NoCall EXCEPT !.op = "setBackend",
                              !.d = deviceType, !.bt = backendType,
                              !.x = backend]
  /\ passed' = passed \cup {deviceType}
  /\ nRegs' = nRegs + 1
  /\ UNCHANGED <<hooks, threads>>
  /\ UNCHANGED <<backendType_, options_, bound_device_id_, coalescing, scope,
                 scopeType, seq, tensor>>

\* the group has backends when a device type holds an instance
hasBackendsByInstance == DOMAIN deviceTypeToBackend_ # {}

\* bool hasBackends(): !deviceTypeToBackendType_.empty()           (616-618)
hasBackends == DOMAIN deviceTypeToBackendType_ # {}

\* std::vector<c10::Device> getDeviceTypes() const: one Device per entry of
\* deviceTypes_, built from the device type alone, so with index -1; the
\* order of the vector is the set's and is not modelled             (671-678)
getDeviceTypes == {[type |-> dt, index |-> -1] : dt \in deviceTypes_}

\* intrusive_ptr<Backend> getBackend(DeviceType): resolves the device type
\* to its backend type, then the backend type to its instance; NoBackend
\* stands for the not-found error
getBackendByDevice(deviceType) ==
  IF deviceType \notin DOMAIN deviceTypeToBackendType_ THEN NoBackend
  ELSE IF deviceTypeToBackendType_[deviceType] \notin DOMAIN backendTypeToBackend_
       THEN NoBackend
       ELSE backendTypeToBackend_[deviceTypeToBackendType_[deviceType]]

\* intrusive_ptr<Backend> getBackend(BackendType) const            (658-665)
getBackendByType(backendType) ==
  IF backendType \in DOMAIN backendTypeToBackend_
  THEN backendTypeToBackend_[backendType] ELSE NoBackend

\* c10::optional<at::Device> getBoundDeviceId() const              (706-708)
getBoundDeviceId == bound_device_id_

\* void setBoundDeviceId(optional<Device>)                         (710-715)
setBoundDeviceId(device) ==
  /\ CanCall
  /\ IF device # NoDevice /\ ~has_index(device)
     THEN /\ UNCHANGED bound_device_id_
          /\ lastCall' = [NoCall EXCEPT !.op = "setBoundDeviceId",
                              !.dev = device, !.res = "error",
                              !.msg = "setBoundDeviceId must have an index"]
     ELSE /\ bound_device_id_' = device
          /\ lastCall' = [NoCall EXCEPT !.op = "setBoundDeviceId",
                              !.dev = device]
  /\ UNCHANGED <<hooks, threads>>
  /\ UNCHANGED <<backendType_, options_, registry, backendBound, coalescing,
                 scope, scopeType, seq, tensor, crashed, passed, nRegs>>

\* int64_t getBackendID(BackendType): the address of the instance; instances
\* are distinct objects of one size laid out from HeapBase
HeapBase    == 4096
BackendSize == 64
AddressOf(backend) == HeapBase + backend * BackendSize
getBackendID(backendType) ==
  IF getBackendByType(backendType) = NoBackend THEN NoNumber
  ELSE AddressOf(getBackendByType(backendType))

\* the default backend falls back to an attached instance of another type
getDefaultBackendOrAttached ==
  IF backendType_ \in DOMAIN backendTypeToBackend_
  THEN backendTypeToBackend_[backendType_]
  ELSE IF DOMAIN backendTypeToBackend_ # {}
       THEN backendTypeToBackend_[CHOOSE bt \in DOMAIN backendTypeToBackend_ : TRUE]
       ELSE NoBackend

\* intrusive_ptr<Backend> getDefaultBackend() const               (645-654)
\* NoBackend stands for the TORCH_CHECK failure (not found)
getDefaultBackend == getBackendByType(backendType_)

\* ------------------------------------- default-backend methods (645-691)

\* Backend::registerOnCompletionHook(): the instance keeps the hook
BackendRegisterOnCompletionHook(backend) == [hooks EXCEPT ![backend] = TRUE]

\* Backend::hasHooks(): the instance holds a completion hook
BackendHasHooks(backend) == hooks[backend]

\* a call that resolves the default backend and, when it is found, runs the
\* named method on it: methods is the set of backend methods invoked, flag
\* the Boolean returned, newHooks the hooks afterwards
OnDefaultBackend(op, methods, flag, newHooks) ==
  /\ CanCall
  /\ IF getDefaultBackend = NoBackend
     THEN /\ lastCall' = [NoCall EXCEPT !.op = op, !.res = "notfound",
                            !.msg = "Could not find the default backend type"]
          /\ UNCHANGED hooks
     ELSE /\ lastCall' = [NoCall EXCEPT !.op = op, !.ret = getDefaultBackend,
                            !.flag = flag,
                            !.invoked = {<<getDefaultBackend, m>> : m \in methods}]
          /\ hooks' = newHooks
  /\ UNCHANGED threads
  /\ UNCHANGED <<backendType_, options_, registry, bound_device_id_,
                 backendBound, coalescing, scope, scopeType, seq, tensor,
                 crashed, passed, nRegs>>

\* a caller asks for the default backend                          (645-654)
getDefaultBackendCall ==
  OnDefaultBackend("getDefaultBackend", {}, FALSE, hooks)

\* void registerOnCompletionHook(hook)                            (680-683)
registerOnCompletionHook ==
  OnDefaultBackend("registerOnCompletionHook", {"registerOnCompletionHook"},
                   FALSE,
                   IF getDefaultBackend = NoBackend THEN hooks
                   ELSE BackendRegisterOnCompletionHook(getDefaultBackend))

\* void waitForPendingWorks()                                     (685-687)
waitForPendingWorks ==
  OnDefaultBackend("waitForPendingWorks", {"waitForPendingWorks"}, FALSE,
                   hooks)

\* bool hasHooks() const                                          (689-691)
hasHooks ==
  OnDefaultBackend("hasHooks", {"hasHooks"},
                   IF getDefaultBackend = NoBackend THEN FALSE
                   ELSE BackendHasHooks(getDefaultBackend),
                   hooks)

\* ---------------------------------------------- coalescing bracket (113-126)

\* Backend::startCoalescing(): the instance begins to accumulate a batch
BackendStartCoalescing(backend) == [coalescing EXCEPT ![backend] = TRUE]

\* Backend::endCoalescing(): the instance flushes the batch it accumulated
BackendEndCoalescing(backend) == [coalescing EXCEPT ![backend] = FALSE]

\* a device type without a backend falls back to the default backend
CoalescingBackendOrDefault(deviceType) ==
  IF getBackendByDevice(deviceType) # NoBackend
  THEN getBackendByDevice(deviceType) ELSE getDefaultBackend

\* the default backend is signalled whatever the device type
CoalescingBackendDefault(deviceType) == getDefaultBackend

\* auto backend = getBackend(deviceType)                          (116, 123)
CoalescingBackend(deviceType) == getBackendByDevice(deviceType)

\* the backend type a device type is registered under
TypeOf(deviceType) ==
  IF deviceType \in DOMAIN deviceTypeToBackendType_
  THEN deviceTypeToBackendType_[deviceType] ELSE UNDEFINED

\* virtual void startCoalescing(DeviceType)                       (113-118)
startCoalescing(deviceType) ==
  /\ CanCall
  /\ LET backend == CoalescingBackend(deviceType)
     IN IF backend = NoBackend
        THEN /\ lastCall' = [NoCall EXCEPT !.op = "startCoalescing",
                                !.d = deviceType, !.res = "notfound"]
             /\ UNCHANGED <<coalescing, scope, scopeType>>
        ELSE /\ coalescing' = BackendStartCoalescing(backend)
             /\ scope' = [scope EXCEPT ![deviceType] = backend]
             /\ scopeType' = [scopeType EXCEPT ![deviceType] =
                                TypeOf(deviceType)]
             /\ lastCall' = [NoCall EXCEPT !.op = "startCoalescing",
                                !.d = deviceType, !.ret = backend,
                                !.invoked = {<<backend, "startCoalescing">>}]
  /\ UNCHANGED <<hooks, threads>>
  /\ UNCHANGED <<backendType_, options_, registry, bound_device_id_,
                 backendBound, seq, tensor, crashed, passed, nRegs>>

\* virtual intrusive_ptr<Work> endCoalescing(DeviceType)           (120-126)
endCoalescing(deviceType) ==
  /\ CanCall
  /\ LET backend == CoalescingBackend(deviceType)
     IN IF backend = NoBackend
        THEN /\ lastCall' = [NoCall EXCEPT !.op = "endCoalescing",
                                !.d = deviceType, !.res = "notfound"]
             /\ UNCHANGED <<coalescing, scope, scopeType>>
        ELSE /\ coalescing' = BackendEndCoalescing(backend)
             /\ scope' = [scope EXCEPT ![deviceType] = NoBackend]
             /\ UNCHANGED scopeType
             /\ lastCall' = [NoCall EXCEPT !.op = "endCoalescing",
                                !.d = deviceType, !.ret = backend,
                                !.invoked = {<<backend, "endCoalescing">>}]
  /\ UNCHANGED <<hooks, threads>>
  /\ UNCHANGED <<backendType_, options_, registry, bound_device_id_,
                 backendBound, seq, tensor, crashed, passed, nRegs>>

\* ------------------------------------------ sequence numbers (484-523)

\* MPI is taken for a backend that supports sequence numbers
SupportsSequenceNumbersWithMPI(backendType) ==
  backendType \in {GLOO, NCCL, UCC, MPI}

\* backendType == GLOO || backendType == NCCL || backendType == UCC
\*                                                    (490-492, 511-513)
SupportsSequenceNumbers(backendType) == backendType \in {GLOO, NCCL, UCC}

\* c10::str("ProcessGroup ", getBackendName(),
\*          " does not yet support sequence numbers.")     (497-500, 518-521)
UnsupportedMessage ==
  "ProcessGroup " \o options_.backend \o
  " does not yet support sequence numbers."

\* Backend::setSequenceNumberForGroup(): the baseline rank 0 originated
SeqBaseline == 1

\* virtual void setSequenceNumberForGroup()                        (487-502)
setSequenceNumberForGroup ==
  /\ CanCall
  /\ IF SupportsSequenceNumbers(backendType_)
     THEN IF getDefaultBackend = NoBackend
          THEN /\ lastCall' = [NoCall EXCEPT
                                 !.op = "setSequenceNumberForGroup",
                                 !.res = "notfound"]
               /\ UNCHANGED seq
          ELSE /\ seq' = [seq EXCEPT ![getDefaultBackend] = SeqBaseline]
               /\ lastCall' = [NoCall EXCEPT
                                 !.op = "setSequenceNumberForGroup",
                                 !.ret = getDefaultBackend,
                                 !.invoked = {<<getDefaultBackend,
                                               "setSequenceNumberForGroup">>}]
     ELSE /\ lastCall' = [NoCall EXCEPT !.op = "setSequenceNumberForGroup",
                            !.res = "unsupported", !.msg = UnsupportedMessage]
          /\ UNCHANGED seq
  /\ UNCHANGED <<hooks, threads>>
  /\ UNCHANGED <<backendType_, options_, registry, bound_device_id_,
                 backendBound, coalescing, scope, scopeType, tensor, crashed,
                 passed, nRegs>>

\* virtual uint64_t getSequenceNumberForGroup()                    (507-523)
getSequenceNumberForGroup ==
  /\ CanCall
  /\ IF SupportsSequenceNumbers(backendType_)
     THEN IF getDefaultBackend = NoBackend
          THEN lastCall' = [NoCall EXCEPT !.op = "getSequenceNumberForGroup",
                              !.res = "notfound"]
          ELSE lastCall' = [NoCall EXCEPT !.op = "getSequenceNumberForGroup",
                              !.ret = getDefaultBackend,
                              !.num = seq[getDefaultBackend],
                              !.invoked = {<<getDefaultBackend,
                                            "getSequenceNumberForGroup">>}]
     ELSE lastCall' = [NoCall EXCEPT !.op = "getSequenceNumberForGroup",
                         !.res = "unsupported", !.msg = UnsupportedMessage]
  /\ UNCHANGED <<hooks, threads>>
  /\ UNCHANGED <<backendType_, options_, registry, bound_device_id_,
                 backendBound, coalescing, scope, scopeType, seq, tensor,
                 crashed, passed, nRegs>>

\* ------------------------------------------- collective dispatch (128-461)

\* the Options values the callers pass: one record stands for the
\* per-collective variants, each method reads the fields its variant has
Options ==
  [timeout : 1 .. MaxTimeout, rootRank : {0}, rootTensor : {0},
   asyncOp : {TRUE}, reduceOp : {"SUM"}]

\* opts.timeout.count(): the number of milliseconds
count(timeout) == timeout

\* op.call(...): the named operation is invoked with the arguments given
Dispatch(method, opts, call) ==
  /\ CanCall
  /\ lastCall' = [NoCall EXCEPT !.op = method, !.timeout = opts.timeout,
                                !.disp = call]
  /\ UNCHANGED <<hooks, threads>>
  /\ UNCHANGED <<backendType_, options_, registry, bound_device_id_,
                 backendBound, coalescing, scope, scopeType, seq, tensor,
                 crashed, passed, nRegs>>

broadcast(opts) ==                                              \* 128-152
  Dispatch("broadcast", opts,
    [name |-> "c10d::broadcast_", rootRank |-> opts.rootRank,
     rootTensor |-> opts.rootTensor, asyncOp |-> opts.asyncOp,
     timeout |-> count(opts.timeout)])

allreduce(opts) ==                                              \* 154-174
  Dispatch("allreduce", opts,
    [name |-> "c10d::allreduce_", reduceOp |-> opts.reduceOp,
     timeout |-> count(opts.timeout)])

allreduce_coalesced(opts) ==                                    \* 176-192
  Dispatch("allreduce_coalesced", opts,
    [name |-> "c10d::allreduce_coalesced_", reduceOp |-> opts.reduceOp,
     timeout |-> count(opts.timeout)])

reduce(opts) ==                                                 \* 194-213
  Dispatch("reduce", opts,
    [name |-> "c10d::reduce_", reduceOp |-> opts.reduceOp,
     rootRank |-> opts.rootRank, rootTensor |-> opts.rootTensor,
     timeout |-> count(opts.timeout)])

allgather(opts) ==                                              \* 215-234
  Dispatch("allgather", opts,
    [name |-> "c10d::allgather_", timeout |-> count(opts.timeout)])

allgather_base(opts) ==                                         \* 240-260
  Dispatch("_allgather_base", opts,
    [name |-> "c10d::_allgather_base_", asyncOp |-> opts.asyncOp,
     timeout |-> count(opts.timeout)])

allgather_coalesced(opts) ==                                    \* 266-282
  Dispatch("allgather_coalesced", opts,
    [name |-> "c10d::allgather_coalesced_"])

allgather_into_tensor_coalesced(opts) ==                        \* 287-303
  Dispatch("allgather_into_tensor_coalesced", opts,
    [name |-> "c10d::allgather_into_tensor_coalesced_"])

gather(opts) ==                                                 \* 305-323
  Dispatch("gather", opts,
    [name |-> "c10d::gather_", rootRank |-> opts.rootRank,
     timeout |-> count(opts.timeout)])

scatter(opts) ==                                                \* 325-347
  Dispatch("scatter", opts,
    [name |-> "c10d::scatter_", rootRank |-> opts.rootRank,
     asyncOp |-> opts.asyncOp, timeout |-> count(opts.timeout)])

reduce_scatter(opts) ==                                         \* 349-369
  Dispatch("reduce_scatter", opts,
    [name |-> "c10d::reduce_scatter_", reduceOp |-> opts.reduceOp,
     timeout |-> count(opts.timeout)])

reduce_scatter_base(opts) ==                                    \* 371-392
  Dispatch("_reduce_scatter_base", opts,
    [name |-> "c10d::_reduce_scatter_base_", reduceOp |-> opts.reduceOp,
     asyncOp |-> opts.asyncOp, timeout |-> count(opts.timeout)])

reduce_scatter_tensor_coalesced(opts) ==                        \* 397-417
  Dispatch("reduce_scatter_tensor_coalesced", opts,
    [name |-> "c10d::reduce_scatter_tensor_coalesced_",
     reduceOp |-> opts.reduceOp, timeout |-> count(opts.timeout)])

alltoall_base(opts) ==                                          \* 419-441
  Dispatch("alltoall_base", opts,
    [name |-> "c10d::alltoall_base_", timeout |-> count(opts.timeout)])

alltoall(opts) ==                                               \* 443-461
  Dispatch("alltoall", opts,
    [name |-> "c10d::alltoall_", timeout |-> count(opts.timeout)])

\* ------------------------------------------------------ barrier (576-610)

\* BarrierOptions.device: absent, or a device of some type
BarrierDevices == {NoDevice} \cup [type : DeviceType, index : {-1}]
BarrierOptions == [timeout : 1 .. MaxTimeout, device : BarrierDevices]

\* the default backend type is not looked at
BarrierTensorDeviceCpu(device) ==
  IF device # NoDevice THEN device.type ELSE "CPU"

\* the device the buffer is placed on                             (580-595)
BarrierTensorDevice(device) ==
  IF device # NoDevice THEN device.type
  ELSE IF backendType_ = NCCL THEN "CUDA"
  ELSE "CPU"

\* virtual intrusive_ptr<Work> barrier(const BarrierOptions&)      (576-610)
barrier(opts) ==
  /\ CanCall
  /\ tensor' = BarrierTensorDevice(opts.device)
  /\ lastCall' = [NoCall EXCEPT !.op = "barrier", !.timeout = opts.timeout,
                    !.dev = opts.device,
                    !.disp = [name |-> "c10d::barrier", tensor |-> tensor',
                              timeout |-> count(opts.timeout)]]
  /\ UNCHANGED <<hooks, threads>>
  /\ UNCHANGED <<backendType_, options_, registry, bound_device_id_,
                 backendBound, coalescing, scope, scopeType, seq, crashed,
                 passed, nRegs>>

\* ------------------------------- barrier() called from two threads (576-610)
\* the function-local static tensor (578) is one object for every thread; a
\* call writes it (583-594) and later reads it for op.call (605-609), with
\* no lock in between

\* outcomes of an access to the static tensor that races with another
\* thread's call: it goes through, or the process dies
RaceOutcomes == {"ok", "crash"}

\* an access by thread t races when another thread is between its write and
\* its read of the static tensor
RaceChoices(t) ==
  IF \E u \in Threads \ {t} : pc[u] = "placed"
  THEN RaceOutcomes ELSE {"ok"}

\* thread t enters barrier(opts) and assigns the static tensor     (578-595)
barrierPlace(t, opts, race) ==
  /\ CanCall
  /\ pc[t] = "idle"
  /\ IF race = "crash"
     THEN /\ crashed' = TRUE
          /\ UNCHANGED <<tensor, pc, threadOpts>>
     ELSE /\ tensor' = BarrierTensorDevice(opts.device)
          /\ pc' = [pc EXCEPT ![t] = "placed"]
          /\ threadOpts' = [threadOpts EXCEPT ![t] = opts]
          /\ UNCHANGED crashed
  /\ UNCHANGED <<threadDisp, lastCall, hooks>>
  /\ UNCHANGED <<backendType_, options_, registry, bound_device_id_,
                 backendBound, coalescing, scope, scopeType, seq, passed,
                 nRegs>>

\* thread t reads the static tensor and dispatches with it         (597-609)
barrierCall(t, race) ==
  /\ CanCall
  /\ pc[t] = "placed"
  /\ IF race = "crash"
     THEN /\ crashed' = TRUE
          /\ UNCHANGED <<pc, threadDisp, lastCall>>
     ELSE /\ threadDisp' =
               [threadDisp EXCEPT ![t] =
                  [name |-> "c10d::barrier", tensor |-> tensor,
                   timeout |-> count(threadOpts[t].timeout)]]
          /\ pc' = [pc EXCEPT ![t] = "done"]
          /\ lastCall' = [NoCall EXCEPT !.op = "barrier",
                            !.timeout = threadOpts[t].timeout,
                            !.dev = threadOpts[t].device,
                            !.disp = threadDisp'[t]]
          /\ UNCHANGED crashed
  /\ UNCHANGED <<tensor, threadOpts, hooks>>
  /\ UNCHANGED <<backendType_, options_, registry, bound_device_id_,
                 backendBound, coalescing, scope, scopeType, seq, passed,
                 nRegs>>

\* ------------------------------------------------------- specifications

\* a caller registers a backend
Register ==
  \E d \in DeviceType, bt \in RegTypes, x \in Backends \cup {NoBackend} :
    \E ub \in UBChoices(bt, x) : setBackend(d, bt, x, ub)

\* a caller binds the group to a device
Bind == \E dev \in OptDevice : setBoundDeviceId(dev)

Next ==
  \/ Register
  \/ Bind

Spec == Init /\ [][Next]_vars

NextCoalescing ==
  \/ Register
  \/ \E d \in DeviceType : startCoalescing(d)
  \/ \E d \in DeviceType : endCoalescing(d)

SpecCoalescing == Init /\ [][NextCoalescing]_vars

NextSequence ==
  \/ Register
  \/ setSequenceNumberForGroup
  \/ getSequenceNumberForGroup

SpecSequence == Init /\ [][NextSequence]_vars

NextCollectives ==
  \/ \E opts \in Options : broadcast(opts)
  \/ \E opts \in Options : allreduce(opts)
  \/ \E opts \in Options : allreduce_coalesced(opts)
  \/ \E opts \in Options : reduce(opts)
  \/ \E opts \in Options : allgather(opts)
  \/ \E opts \in Options : allgather_base(opts)
  \/ \E opts \in Options : allgather_coalesced(opts)
  \/ \E opts \in Options : allgather_into_tensor_coalesced(opts)
  \/ \E opts \in Options : gather(opts)
  \/ \E opts \in Options : scatter(opts)
  \/ \E opts \in Options : reduce_scatter(opts)
  \/ \E opts \in Options : reduce_scatter_base(opts)
  \/ \E opts \in Options : reduce_scatter_tensor_coalesced(opts)
  \/ \E opts \in Options : alltoall_base(opts)
  \/ \E opts \in Options : alltoall(opts)

SpecCollectives == Init /\ [][NextCollectives]_vars

NextBarrier ==
  \/ Register
  \/ \E opts \in BarrierOptions : barrier(opts)

SpecBarrier == Init /\ [][NextBarrier]_vars

NextHooks ==
  \/ Register
  \/ getDefaultBackendCall
  \/ registerOnCompletionHook
  \/ waitForPendingWorks
  \/ hasHooks

SpecHooks == Init /\ [][NextHooks]_vars

NextConcurrentBarrier ==
  \/ \E t \in Threads, opts \in BarrierOptions :
       \E race \in RaceChoices(t) : barrierPlace(t, opts, race)
  \/ \E t \in Threads : \E race \in RaceChoices(t) : barrierCall(t, race)

SpecConcurrentBarrier == Init /\ [][NextConcurrentBarrier]_vars

\* ------------------------------------------------------------ properties

\* the instances the registry holds
Stored(byDevice, byType) ==
  {byDevice[d] : d \in DOMAIN byDevice} \cup {byType[bt] : bt \in DOMAIN byType}

\* the last step was a call of setBackend
IsSetBackendStep == nRegs' = nRegs + 1 /\ lastCall'.op = "setBackend"

\* C1: when setBackend(d1, B, b1) with b1 supplied and then
\* setBackend(d2, B, b2) with d2 # d1 both complete, getBackend(d1) and
\* getBackend(d2) return one instance, the one first registered under B
\* (b1, or the instance B already had before the first call), whatever b2 is;
\* the device map holds that instance for both device types.
C1_SameInstanceForBothDeviceTypes ==
  [][ \A d1, d2 \in DeviceType :
        ( /\ lastCall.op = "setBackend" /\ lastCall.res = "ok"
          /\ lastCall.d = d1 /\ lastCall.x # NoBackend
          /\ IsSetBackendStep /\ lastCall'.res = "ok"
          /\ lastCall'.d = d2 /\ d2 # d1
          /\ lastCall'.bt = lastCall.bt )
        => \E first \in Backends :
             /\ first = IF lastCall.existing # NoBackend
                        THEN lastCall.existing ELSE lastCall.x
             /\ getBackendByDevice(d1)' = first
             /\ getBackendByDevice(d2)' = first
             /\ deviceTypeToBackend_'[d1] = first
             /\ deviceTypeToBackend_'[d2] = first ]_vars

\* two registrations of one backend type for two device types, the second
\* with another instance than the one registered
C1_Witness ==
  /\ nRegs = 2 /\ lastCall.op = "setBackend" /\ lastCall.res = "ok"
  /\ lastCall.existing # NoBackend
  /\ lastCall.x \notin {NoBackend, lastCall.existing}
  /\ \E d1 \in passed \ {lastCall.d} :
       /\ deviceTypeToBackendType_[d1] = lastCall.bt
       /\ deviceTypeToBackend_[d1] = lastCall.existing

\* C2: setBackend(d, B, none) with B already registered completes without
\* error and without reading the absent instance, and afterwards
\* getBackend(d) is the instance registered under B.
C2_NoInstanceNeededOnReuse ==
  ( /\ lastCall.op = "setBackend"
    /\ lastCall.x = NoBackend /\ lastCall.existing # NoBackend )
  => /\ lastCall.res = "ok"
     /\ ~lastCall.readAbsent
     /\ ~crashed
     /\ getBackendByDevice(lastCall.d) = lastCall.existing

\* C3: for every device type d with an entry in deviceTypeToBackend_,
\* deviceTypeToBackendType_[d] is a key of backendTypeToBackend_ and
\* deviceTypeToBackend_[d] is backendTypeToBackend_[deviceTypeToBackendType_[d]].
C3_MapsConsistent ==
  \A d \in DOMAIN deviceTypeToBackend_ :
    /\ d \in DOMAIN deviceTypeToBackendType_
    /\ deviceTypeToBackendType_[d] \in DOMAIN backendTypeToBackend_
    /\ deviceTypeToBackend_[d] =
         backendTypeToBackend_[deviceTypeToBackendType_[d]]

\* C4: an instance stored under a backend type is never replaced or removed
\* by a later call: getBackend(B) and getBackendID(B) keep their value.
C4_InstancePerTypeIsStable ==
  [][ \A bt \in DOMAIN backendTypeToBackend_ :
        /\ bt \in DOMAIN backendTypeToBackend_'
        /\ backendTypeToBackend_'[bt] = backendTypeToBackend_[bt]
        /\ getBackendByType(bt)' = getBackendByType(bt)
        /\ getBackendID(bt)' = getBackendID(bt)
        /\ getBackendID(bt) # NoNumber ]_vars

\* a backend type that holds an instance was registered again with another
\* supplied instance, and still resolves to the first
C4_Witness ==
  /\ lastCall.op = "setBackend"
  /\ lastCall.existing # NoBackend
  /\ lastCall.x # NoBackend /\ lastCall.x # lastCall.existing
  /\ getBackendByType(lastCall.bt) = lastCall.existing
  /\ getBackendID(lastCall.bt) = AddressOf(lastCall.existing)

\* C5: setBackend(d, B, x) with B registered under e and x supplied fails
\* exactly when e's bound device differs from x's; when they are equal the
\* call succeeds, d resolves to e, and the call stores x nowhere: the type
\* map and the other device entries are unchanged, and an x the registry did
\* not hold before is still not held.
C5_ConsistencyErrorIffBoundDevicesDiffer ==
  [][ ( /\ IsSetBackendStep
        /\ lastCall'.existing # NoBackend /\ lastCall'.x # NoBackend )
      => \E e, x \in Backends :
           /\ e = lastCall'.existing /\ x = lastCall'.x
           /\ lastCall'.res \in {"ok", "error"}
           /\ (lastCall'.res = "error") <=> (backendBound[e] # backendBound[x])
           /\ backendTypeToBackend_[lastCall'.bt] = e
           /\ lastCall'.res = "ok" =>
                /\ deviceTypeToBackend_' =
                     Put(deviceTypeToBackend_, lastCall'.d, e)
                /\ backendTypeToBackend_' = backendTypeToBackend_
                /\ backendBound' = backendBound
                /\ x \notin Stored(deviceTypeToBackend_, backendTypeToBackend_)
                     => x \notin Stored(deviceTypeToBackend_',
                                        backendTypeToBackend_') ]_vars

\* a supplied instance with the same bound device as the registered one was
\* passed for a registered backend type and is held nowhere
C5_Witness ==
  /\ lastCall.op = "setBackend" /\ lastCall.res = "ok"
  /\ lastCall.existing # NoBackend /\ lastCall.x # NoBackend
  /\ lastCall.x # lastCall.existing
  /\ backendBound[lastCall.x] = backendBound[lastCall.existing]
  /\ deviceTypeToBackend_[lastCall.d] = lastCall.existing
  /\ lastCall.x \notin Stored(deviceTypeToBackend_, backendTypeToBackend_)

\* the last call was startCoalescing or endCoalescing
IsCoalescingCall ==
  lastCall.op \in {"startCoalescing", "endCoalescing"}

\* C6: getBackend(d) fails with not-found for every device type d never
\* passed to setBackend, and startCoalescing(d) / endCoalescing(d) for such
\* a d fail with not-found before any backend method is invoked.
C6_NotFoundForUnregisteredDeviceType ==
  /\ \A d \in DeviceType \ passed : getBackendByDevice(d) = NoBackend
  /\ (IsCoalescingCall /\ lastCall.d \notin passed)
       => /\ lastCall.res = "notfound"
          /\ lastCall.invoked = {}
          /\ lastCall.ret = NoBackend

\* a bracket was opened or closed for a device type never registered while a
\* backend is attached to another device type
C6_Witness ==
  /\ IsCoalescingCall /\ lastCall.d \notin passed
  /\ passed # {} /\ DOMAIN backendTypeToBackend_ # {}
  /\ lastCall.res = "notfound"

\* the last call was one of the two sequence-number methods
IsSequenceCall ==
  lastCall.op \in {"setSequenceNumberForGroup", "getSequenceNumberForGroup"}

IsDefaultBarrierOnCpuOnlyGroup ==
  /\ lastCall.op = "barrier" /\ lastCall.dev = NoDevice
  /\ passed = {"CPU"} /\ DOMAIN deviceTypeToBackend_ = {"CPU"}

\* C8 as stated: barrier() with no explicit device on a group whose only
\* registered backend is the CPU kind dispatches with a CPU buffer for every
\* default backend type.
C8_BarrierUsesCpuBuffer ==
  IsDefaultBarrierOnCpuOnlyGroup => lastCall.disp.tensor = "CPU"

\* C8 as amended: such a barrier() dispatches with a CPU buffer for every
\* default backend type but NCCL, and with a CUDA buffer when the default
\* backend type is NCCL.
C8_BarrierBufferFollowsDefaultType ==
  IsDefaultBarrierOnCpuOnlyGroup =>
    /\ backendType_ # NCCL => lastCall.disp.tensor = "CPU"
    /\ backendType_ = NCCL => lastCall.disp.tensor = "CUDA"

\* such a barrier() on a group whose default backend type is NCCL
C8_Witness ==
  /\ IsDefaultBarrierOnCpuOnlyGroup
  /\ backendType_ = NCCL
  /\ tensor = "CUDA"

\* C9: every collective dispatch method that takes an Options value forwards
\* that Options' timeout to the operation it invokes.
C9_TimeoutForwarded ==
  lastCall.disp.name # "none" =>
    /\ "timeout" \in DOMAIN lastCall.disp
    /\ lastCall.disp.timeout = lastCall.timeout

\* the last step was a bracket call for d1 that signalled a backend
IsCoalescingStep(d1) ==
  /\ lastCall'.op \in {"startCoalescing", "endCoalescing"}
  /\ lastCall'.d = d1
  /\ lastCall'.invoked # {}

\* C10 as stated: a bracket call for d1 never signals the instance that
\* holds the open batch of another device type d2, and endCoalescing(d)
\* signals the instance startCoalescing(d) signalled.
C10_ScopesIndependent ==
  [][ \A d1 \in DeviceType :
        IsCoalescingStep(d1) =>
          /\ \A d2 \in DeviceType \ {d1} :
               scope[d2] # NoBackend => scope[d2] # lastCall'.ret
          /\ (lastCall'.op = "endCoalescing" /\ scope[d1] # NoBackend)
               => lastCall'.ret = scope[d1] ]_vars

\* C10 as amended: for device types d1, d2 that resolve to different backend
\* instances and are not registered again while a bracket is open, a bracket
\* call for d1 never signals the instance that holds d2's open batch, and
\* endCoalescing(d) signals the instance startCoalescing(d) signalled.
C10_ScopesIndependentAcrossInstances ==
  [][ \A d1 \in DeviceType :
        IsCoalescingStep(d1) =>
          /\ \A d2 \in DeviceType \ {d1} :
               ( /\ scope[d2] # NoBackend
                 /\ scopeType[d2] = TypeOf(d2)
                 /\ getBackendByDevice(d2) # getBackendByDevice(d1) )
               => scope[d2] # lastCall'.ret
          /\ ( /\ lastCall'.op = "endCoalescing"
               /\ scope[d1] # NoBackend
               /\ scopeType[d1] = TypeOf(d1) )
               => lastCall'.ret = scope[d1] ]_vars

\* brackets are open for two device types on two different instances
C10_Witness ==
  /\ IsCoalescingCall
  /\ scope["CPU"] # NoBackend /\ scope["CUDA"] # NoBackend
  /\ scope["CPU"] # scope["CUDA"]
  /\ coalescing[scope["CPU"]] /\ coalescing[scope["CUDA"]]

\* the last step was a call of setBoundDeviceId with this device
IsSetBoundDeviceIdStep(dev) ==
  lastCall'.op = "setBoundDeviceId" /\ lastCall'.dev = dev

\* C11: the group's bound device is always unset or a device with an index;
\* setBoundDeviceId with a device without an index fails and leaves the
\* bound device as it was; with an indexed device or with no device it
\* succeeds and getBoundDeviceId() then returns exactly that value.
C11_BoundDeviceHasIndex ==
  /\ [](getBoundDeviceId = NoDevice \/ getBoundDeviceId.index # -1)
  /\ [][ \A dev \in OptDevice :
           IsSetBoundDeviceIdStep(dev) =>
             IF dev # NoDevice /\ dev.index = -1
             THEN /\ lastCall'.res = "error"
                  /\ getBoundDeviceId' = getBoundDeviceId
             ELSE /\ lastCall'.res = "ok"
                  /\ getBoundDeviceId' = dev ]_vars

\* a device without an index was refused while the group was bound to an
\* indexed device, which it still is
C11_Witness ==
  /\ lastCall.op = "setBoundDeviceId" /\ lastCall.res = "error"
  /\ lastCall.dev # NoDevice /\ lastCall.dev.index = -1
  /\ getBoundDeviceId # NoDevice /\ getBoundDeviceId.index # -1

\* the methods that go through the default backend
DefaultBackendMethods ==
  {"getDefaultBackend", "registerOnCompletionHook", "waitForPendingWorks",
   "hasHooks"}

\* the last step was a call of one of the default-backend methods
IsDefaultBackendStep == lastCall'.op \in DefaultBackendMethods

\* C12: getDefaultBackend(), registerOnCompletionHook(),
\* waitForPendingWorks() and hasHooks() resolve only through the group's own
\* backend type: when no instance is stored under it they fail with not-found
\* and invoke no backend, whatever other backends are attached; when one is
\* stored they return it or run their method on exactly that instance, and
\* no other instance's hooks change.
C12_DefaultBackendOnly ==
  [][ IsDefaultBackendStep =>
        IF backendType_ \notin DOMAIN backendTypeToBackend_
        THEN /\ lastCall'.res = "notfound"
             /\ lastCall'.invoked = {}
             /\ lastCall'.ret = NoBackend
             /\ hooks' = hooks
        ELSE \E b \in Backends :
               /\ b = backendTypeToBackend_[backendType_]
               /\ lastCall'.res = "ok"
               /\ lastCall'.ret = b
               /\ lastCall'.invoked =
                    IF lastCall'.op = "getDefaultBackend" THEN {}
                    ELSE {<<b, lastCall'.op>>}
               /\ \A i \in Backends \ {b} : hooks'[i] = hooks[i]
               /\ lastCall'.op = "registerOnCompletionHook" => hooks'[b]
               /\ lastCall'.op = "hasHooks" => lastCall'.flag = hooks[b] ]_vars

\* a default-backend method failed with not-found on a group that has a
\* backend of another type attached
C12_Witness ==
  /\ lastCall.op \in DefaultBackendMethods \ {"getDefaultBackend"}
  /\ lastCall.res = "notfound"
  /\ backendType_ \notin DOMAIN backendTypeToBackend_
  /\ DOMAIN backendTypeToBackend_ # {}

\* C13: every setBackend(d, B, x) call records d -> B in
\* deviceTypeToBackendType_ and adds d to the device-type set, also when it
\* fails the bound-device check and when no instance is supplied and B is
\* not registered; in every state the device types getDeviceTypes() returns
\* are the keys of deviceTypeToBackendType_, and hasBackends() is true once
\* setBackend has been called.
C13_DeviceTypeAlwaysRecorded ==
  /\ [][ \A d \in DeviceType, bt \in BackendType :
           (IsSetBackendStep /\ lastCall'.d = d /\ lastCall'.bt = bt)
           => /\ d \in DOMAIN deviceTypeToBackendType_'
              /\ deviceTypeToBackendType_'[d] = bt
              /\ d \in deviceTypes_'
              /\ [type |-> d, index |-> -1] \in getDeviceTypes' ]_vars
  /\ []( /\ {dev.type : dev \in getDeviceTypes} =
             DOMAIN deviceTypeToBackendType_
         /\ nRegs > 0 => hasBackends
         /\ nRegs = 0 => ~hasBackends )

\* a second device type was recorded by a call that failed the bound-device
\* check
C13_Witness ==
  /\ lastCall.op = "setBackend" /\ lastCall.res = "error"
  /\ lastCall.x # NoBackend
  /\ Cardinality(passed) = 2
  /\ deviceTypeToBackendType_[lastCall.d] = lastCall.bt
  /\ lastCall.d \in deviceTypes_
  /\ hasBackends

\* the last step was setBackend(d, bt, x) with x supplied and bt not
\* registered before
IsNewRegistrationStep(d, bt, x) ==
  /\ IsSetBackendStep
  /\ lastCall'.d = d /\ lastCall'.bt = bt /\ lastCall'.x = x
  /\ x # NoBackend
  /\ bt \notin DOMAIN backendTypeToBackend_

\* a new registration stores x under d and bt and sets x's bound device to
\* the group's, the unset value included
NewRegistrationBindsInstance ==
  \A d \in DeviceType, bt \in BackendType, x \in Backends :
    IsNewRegistrationStep(d, bt, x) =>
      /\ deviceTypeToBackend_'[d] = x
      /\ backendTypeToBackend_'[bt] = x
      /\ backendBound'[x] = getBoundDeviceId

\* setBoundDeviceId on the group changes no instance's bound device
BindLeavesBackendsAlone ==
  lastCall'.op = "setBoundDeviceId" =>
    \A i \in Backends : backendBound'[i] = backendBound[i]

SelectDifferentDevices(o1, o2) ==
  /\ (o1.device = NoDevice) # (o2.device = NoDevice)
  /\ BarrierTensorDevice(o1.device) # BarrierTensorDevice(o2.device)

\* C15: when two threads call barrier() with options that select different
\* devices, each call that dispatches does so with the buffer on the device
\* its own options selected, however the steps of the two calls interleave.
C15_EachCallUsesOwnDevice ==
  \A t \in Threads : \A u \in Threads \ {t} :
    ( /\ pc[t] = "done" /\ pc[u] # "idle"
      /\ SelectDifferentDevices(threadOpts[t], threadOpts[u]) )
    => threadDisp[t].tensor = BarrierTensorDevice(threadOpts[t].device)
====
